---- MODULE Spec2Model ----
(***************************************************************************)
(* The Follow plugin of pixi-viewport (src/src/plugins/Follow.ts): the     *)
(* per-frame camera update, its velocity state and the follow-point        *)
(* accessors, together with the collaborators it calls (the viewport's     *)
(* center, toWorld and moveCenter, the plugin's paused flag, the target).  *)
(*                                                                         *)
(* Numbers.  The source computes in IEEE doubles; the model computes in    *)
(* exact integer arithmetic.  Math.cos(Math.atan2(dy, dx)) * m is dx*m/h   *)
(* and Math.sin(Math.atan2(dy, dx)) * m is dy*m/h with h = sqrt(dx^2+dy^2);*)
(* the frame inputs are drawn so that every vector that reaches atan2 has  *)
(* an integer h dividing 5*dx and 5*dy (the axes and the 3-4-5 bearings),  *)
(* and every magnitude m (speed, radius, acceleration*elapsed) is a        *)
(* multiple of 5, so the quotients are exact.  Rounding of doubles is not  *)
(* modelled.  Comparisons of distances are made on the squares.            *)
(*                                                                         *)
(* Viewport.  Viewport.ts and Plugin.ts are not among the sources; the     *)
(* viewport is modelled at scale 1 with a fixed screen, so that            *)
(*   center  = worldScreen/2 - position,                                   *)
(*   toWorld(p) = p - position = p + center - worldScreen/2,               *)
(*   moveCenter(x, y) makes center = (x, y).                               *)
(***************************************************************************)
EXTENDS Integers, Sequences, FiniteSets, TLC

VARIABLES
    center,      \* parent.center, world coordinates, <<x, y>>
    target,      \* target.x, target.y, world coordinates, <<x, y>>
    options,     \* this.options: speed, acceleration, radius, followPoint
    velocity,    \* this.velocity, <<x, y>>
    paused,      \* this.paused (Plugin)
    ctorArg,     \* the options object the constructor was given
    fpArg,       \* the argument of the latest setFollowPoint call, if any
    changes,     \* number of target moves and setFollowPoint calls so far
    last         \* what the latest call did (observation only)

vars == <<center, target, options, velocity, paused, ctorArg, fpArg, changes, last>>

----------------------------------------------------------------------------
(* Bounds of the model *)

\* elapsed is drawn from 0..MaxElapsed
MaxElapsed == 2

\* the target moves and setFollowPoint is called at most this many times,
\* taken together, in a behaviour
MaxChanges == 1

----------------------------------------------------------------------------
(* Values *)

\* null; a nullable number n is <<n>>, a point is <<x, y>>
NULL == <<>>

\* an option left out of the constructor's options object
ABSENT == <<"absent", "absent", "absent">>

\* setFollowPoint has not been called
NEVER == <<"never", "never", "never">>

Num(n) == <<n>>

\* JavaScript truthiness of a nullable number: neither null nor 0
Truthy(v) == v # NULL /\ v[1] # 0

Abs(n) == IF n < 0 THEN -n ELSE n

Min(a, b) == IF a < b THEN a ELSE b

Max(a, b) == IF a > b THEN a ELSE b

Sub(p, q) == <<p[1] - q[1], p[2] - q[2]>>

Add(p, q) == <<p[1] + q[1], p[2] + q[2]>>

\* dx^2 + dy^2
NormSq(w) == (w[1] * w[1]) + (w[2] * w[2])

Dot(u, w) == (u[1] * w[1]) + (u[2] * w[2])

Cross(u, w) == (u[1] * w[2]) - (u[2] * w[1])

----------------------------------------------------------------------------
(* The viewport (Viewport.ts, modelled from the specification, scale 1) *)

\* half of the viewport's screen, in world units: worldScreenWidth / 2 and
\* worldScreenHeight / 2
HalfScreen == <<20, 15>>

\* Viewport.toWorld(p): canvas to world coordinates; the canvas origin is the
\* top-left corner of the screen and the visual center is HalfScreen
toWorld(p) == Add(p, Sub(center, HalfScreen))

----------------------------------------------------------------------------
(* Arithmetic of update *)

\* Math.sqrt(dx^2 + dy^2), to the integer below: the root itself on every
\* vector of an exact bearing, and update takes it of no other
Hyp(w) ==
    CHOOSE h \in 0..(Abs(w[1]) + Abs(w[2])) :
        h * h <= NormSq(w) /\ NormSq(w) < (h + 1) * (h + 1)

\* the bearing of w has a rational sine and cosine whose products with the
\* magnitudes of the model (multiples of 5) are integers
ExactBearing(w) ==
    \E h \in 0..(Abs(w[1]) + Abs(w[2])) :
        /\ h * h = NormSq(w)
        /\ h # 0 => ((5 * w[1]) % h = 0 /\ (5 * w[2]) % h = 0)

\* Math.cos(Math.atan2(w.y, w.x)) * m; atan2(0, 0) is 0
CosTimes(w, m) == IF w = <<0, 0>> THEN m ELSE (w[1] * m) \div Hyp(w)

\* a slip: the cosine taken for the sine
SinTimesCosine(w, m) == IF w = <<0, 0>> THEN m ELSE (w[1] * m) \div Hyp(w)

\* Math.sin(Math.atan2(w.y, w.x)) * m
SinTimes(w, m) == IF w = <<0, 0>> THEN 0 ELSE (w[2] * m) \div Hyp(w)

\* followPointWorld: options.followPoint ?? parent.center, through toWorld
FollowPointWorld ==
    toWorld(IF options.followPoint # NULL THEN options.followPoint ELSE center)

\* a slip: the square root is left out of the distance
SquaredDistanceGreater(w, r) == NormSq(w) > r

\* distance > radius, with distance = sqrt(NormSq(w))
DistanceGreater(w, r) == r < 0 \/ NormSq(w) > r * r

\* a slip: the point radius away from the follow point is taken, instead of
\* the point radius short of the target
ClampFromFollowPoint(t, w, r) ==
    <<t[1] - w[1] + CosTimes(w, r), t[2] - w[2] + SinTimes(w, r)>>

\* toX, toY when the target is outside the dead zone
ClampToRadius(t, w, r) == <<t[1] - CosTimes(w, r), t[2] - SinTimes(w, r)>>

\* targetCenterX, targetCenterY
TargetCenter(to, offset) == Sub(to, offset)

\* distance > decelerationDistance, for acceleration a > 0:
\* sqrt(NormSq(delta)) > NormSq(v) / (2 * a)
BeyondDeceleration(delta, v, a) == 2 * a * Hyp(delta) > NormSq(v)

\* a slip: the Math.min clamp is left out
AccelerateUnclamped(v, a, elapsed, speed) == v + (a * elapsed)

\* a slip: the teleport goes to the target position, the offset forgotten
TeleportToTarget(to, targetCenter) == to

\* the point the teleport branch passes to moveCenter
TeleportTo(to, targetCenter) == targetCenter

\* one velocity component when accelerating
Accelerate(v, a, elapsed, speed) == Min(v + (a * elapsed), speed)

\* one velocity component when decelerating
Decelerate(v, a, elapsed) == Max(v - (a * elapsed), 0)

\* a slip: the overshoot test is left out
AxisUnclamped(change, delta, targetCenter, c) == c + change

\* one coordinate of the new center: snap when the change overshoots
Axis(change, delta, targetCenter, c) ==
    IF Abs(change) > Abs(delta) THEN targetCenter ELSE c + change

----------------------------------------------------------------------------
(* Construction *)

\* DEFAULT_FOLLOW_OPTIONS
DEFAULT_FOLLOW_OPTIONS ==
    [speed |-> Num(0), acceleration |-> NULL, radius |-> Num(0), followPoint |-> <<0, 0>>]

\* Object.assign({}, DEFAULT_FOLLOW_OPTIONS, given): a field of given that is
\* present overrides the default
Assign(defaults, given) ==
    [f \in DOMAIN defaults |-> IF given[f] = ABSENT THEN defaults[f] ELSE given[f]]

\* the options objects a controller is constructed with: every combination
\* of a left-out and a set option, and the falsy and the larger settings
CtorOptions ==
    [speed : {ABSENT, Num(5)},
     acceleration : {ABSENT, Num(5)},
     radius : {ABSENT, Num(10)},
     followPoint : {ABSENT, NULL, HalfScreen}]
    \cup
    {[speed |-> Num(10), acceleration |-> Num(5), radius |-> ABSENT, followPoint |-> HalfScreen],
     [speed |-> Num(10), acceleration |-> NULL, radius |-> Num(10), followPoint |-> ABSENT],
     [speed |-> Num(5), acceleration |-> Num(0), radius |-> NULL, followPoint |-> NULL],
     [speed |-> Num(0), acceleration |-> Num(5), radius |-> Num(0), followPoint |-> <<0, 0>>]}

\* the viewport center a controller is constructed at
StartCenters == {<<0, 0>>}

\* positions of the target relative to the world-space follow point
Offsets ==
    {<<0, 0>>, <<3, 0>>, <<10, 0>>, <<20, 0>>, <<0, -15>>,
     <<6, 8>>, <<-12, 16>>, <<7, 7>>}

\* positions the target is constructed at besides: the scenarios with the
\* target at (100, 0) and the center at (0, 0)
FarOffsets == {<<100, 0>>, <<120, 15>>}

\* the follow points setFollowPoint is called with (canvas coordinates)
FollowPoints == {NULL, <<0, 0>>, HalfScreen}

\* no call to report: last after a call other than update and getFollowPoint
Idle ==
    [op |-> "none", branch |-> "none", paused |-> FALSE,
     centerBefore |-> <<0, 0>>, velocityBefore |-> <<0, 0>>,
     center |-> <<0, 0>>, velocity |-> <<0, 0>>, followPointWorld |-> <<0, 0>>,
     to |-> <<0, 0>>, targetCenter |-> <<0, 0>>, delta |-> <<0, 0>>,
     change |-> <<0, 0>>, moveCenter |-> 0, emitted |-> 0, calls |-> <<>>,
     ret |-> NEVER]

\* update would take the arc tangent of w (or of a vector along w): the
\* target is outside the dead zone, or a speed is set and there is no radius
BearingUsed(opts, w) ==
    IF Truthy(opts.radius) THEN NormSq(w) > opts.radius[1] * opts.radius[1]
    ELSE Truthy(opts.speed) /\ w # <<0, 0>>

\* the frame can be computed exactly
Resolves(opts, w) == BearingUsed(opts, w) => ExactBearing(w)

Init ==
    /\ ctorArg \in CtorOptions
    /\ options = Assign(DEFAULT_FOLLOW_OPTIONS, ctorArg)
    /\ velocity = <<0, 0>>
    /\ paused = FALSE
    /\ center \in StartCenters
    /\ \E o \in Offsets \cup FarOffsets :
          /\ Resolves(options, o)
          /\ target = Add(FollowPointWorld, o)
    /\ fpArg = NEVER
    /\ changes = 0
    /\ last = Idle

----------------------------------------------------------------------------
(* update(elapsed) *)

\* a slip: the paused gate is left out
NeverPaused == FALSE

\* if (this.paused) return
IsPaused == paused

\* a slip: only the velocity of an axis with a remaining delta is updated
NextVelocityOfMovingAxes(delta, v, a, elapsed, speed) ==
    [i \in 1..2 |->
        IF delta[i] = 0 THEN v[i]
        ELSE IF BeyondDeceleration(delta, v, a)
        THEN Accelerate(v[i], a, elapsed, speed)
        ELSE Decelerate(v[i], a, elapsed)]

\* this.velocity after the accelerated branch
NextVelocity(delta, v, a, elapsed, speed) ==
    IF BeyondDeceleration(delta, v, a)
    THEN <<Accelerate(v[1], a, elapsed, speed), Accelerate(v[2], a, elapsed, speed)>>
    ELSE <<Decelerate(v[1], a, elapsed), Decelerate(v[2], a, elapsed)>>

\* a slip: the plugin comes to rest whenever update returns without moving
ReturnsAtRest(branch, followPointWorld, to, targetCenter) ==
    /\ last' = [Idle EXCEPT !.op = "update", !.branch = branch, !.paused = paused,
                            !.centerBefore = center, !.velocityBefore = velocity,
                            !.center = center, !.velocity = <<0, 0>>,
                            !.followPointWorld = followPointWorld,
                            !.to = to, !.targetCenter = targetCenter]
    /\ velocity' = <<0, 0>>
    /\ UNCHANGED center

\* the update returns without a call: paused, inside the dead zone, or with
\* deltaX and deltaY both 0
Returns(branch, followPointWorld, to, targetCenter) ==
    /\ last' = [Idle EXCEPT !.op = "update", !.branch = branch, !.paused = paused,
                            !.centerBefore = center, !.velocityBefore = velocity,
                            !.center = center, !.velocity = velocity,
                            !.followPointWorld = followPointWorld,
                            !.to = to, !.targetCenter = targetCenter]
    /\ UNCHANGED <<center, velocity>>

\* the update leaves velocity v, calls parent.moveCenter(c.x, c.y), which
\* makes c the viewport's center, and then emits 'moved' with type 'follow';
\* last.calls lists the calls in their order
Moves(branch, followPointWorld, to, targetCenter, delta, change, v, c) ==
    /\ velocity' = v
    /\ center' = c
    /\ last' = [op |-> "update", branch |-> branch, paused |-> paused,
                centerBefore |-> center, velocityBefore |-> velocity,
                center |-> c, velocity |-> v,
                followPointWorld |-> followPointWorld, to |-> to,
                targetCenter |-> targetCenter, delta |-> delta, change |-> change,
                moveCenter |-> 1, emitted |-> 1,
                calls |-> <<"moveCenter", "emit moved follow">>, ret |-> NEVER]

\* the accelerated branch
EasedMove(elapsed, followPointWorld, to, targetCenter, delta) ==
    \E v \in {NextVelocity(delta, velocity, options.acceleration[1], elapsed,
                           options.speed[1])} :
    \E change \in {<<CosTimes(delta, v[1]), SinTimes(delta, v[2])>>} :
        Moves(IF BeyondDeceleration(delta, velocity, options.acceleration[1])
              THEN "accelerate" ELSE "decelerate",
              followPointWorld, to, targetCenter, delta, change, v,
              <<Axis(change[1], delta[1], targetCenter[1], center[1]),
                Axis(change[2], delta[2], targetCenter[2], center[2])>>)

\* the constant-speed branch
ConstantMove(followPointWorld, to, targetCenter, delta) ==
    \E change \in {<<CosTimes(delta, options.speed[1]),
                     SinTimes(delta, options.speed[1])>>} :
        Moves("constant", followPointWorld, to, targetCenter, delta, change, velocity,
              <<Axis(change[1], delta[1], targetCenter[1], center[1]),
                Axis(change[2], delta[2], targetCenter[2], center[2])>>)

\* a slip: the test of the deltas is left out
AnyDelta(delta) == TRUE

\* if (deltaX || deltaY)
DeltaNonZero(delta) == delta[1] # 0 \/ delta[2] # 0

\* update from the target center on: the test of the deltas and the motion
\* policy
Steer(elapsed, followPointWorld, to, targetCenter) ==
    \E delta \in {Sub(targetCenter, center)} :
        IF ~DeltaNonZero(delta)
        THEN Returns("still", followPointWorld, to, targetCenter)
        ELSE IF ~Truthy(options.speed)
        THEN Moves("teleport", followPointWorld, to, targetCenter, delta, <<0, 0>>,
                   velocity, TeleportTo(to, targetCenter))
        ELSE IF ~Truthy(options.acceleration)
        THEN ConstantMove(followPointWorld, to, targetCenter, delta)
        ELSE IF NormSq(delta) = 0
        THEN Returns("nodistance", followPointWorld, to, targetCenter)
        ELSE EasedMove(elapsed, followPointWorld, to, targetCenter, delta)

\* update(elapsed); each \E names a const of the source
Update(elapsed) ==
    /\ IF IsPaused
       THEN Returns("paused", <<0, 0>>, <<0, 0>>, <<0, 0>>)
       ELSE \E followPointWorld \in {FollowPointWorld} :
            \E w \in {Sub(target, followPointWorld)} :
                IF Truthy(options.radius) /\ ~DistanceGreater(w, options.radius[1])
                THEN Returns("deadzone", followPointWorld, <<0, 0>>, <<0, 0>>)
                ELSE \E to \in {IF Truthy(options.radius)
                                THEN ClampToRadius(target, w, options.radius[1])
                                ELSE target} :
                     \E offset \in {Sub(followPointWorld, center)} :
                         Steer(elapsed, followPointWorld, to, TargetCenter(to, offset))
    /\ UNCHANGED <<target, options, paused, ctorArg, fpArg, changes>>

----------------------------------------------------------------------------
(* The follow-point accessors *)

\* a slip: a null point is ignored instead of stored
SetFollowPointUnlessNull(point) ==
    /\ changes < MaxChanges
    /\ changes' = changes + 1
    /\ options' = IF point = NULL THEN options ELSE [options EXCEPT !.followPoint = point]
    /\ fpArg' = point
    /\ last' = Idle
    /\ UNCHANGED <<center, target, velocity, paused, ctorArg>>

\* setFollowPoint(point)
SetFollowPoint(point) ==
    /\ changes < MaxChanges
    /\ changes' = changes + 1
    /\ options' = [options EXCEPT !.followPoint = point]
    /\ fpArg' = point
    /\ last' = Idle
    /\ UNCHANGED <<center, target, velocity, paused, ctorArg>>

\* getFollowPoint(): the value returned is recorded in last.ret
GetFollowPoint ==
    /\ last' = [Idle EXCEPT !.op = "getFollowPoint", !.ret = options.followPoint]
    /\ UNCHANGED <<center, target, options, velocity, paused, ctorArg, fpArg, changes>>

----------------------------------------------------------------------------
(* The host and the target *)

\* Plugin.pause()
Pause ==
    /\ paused' = TRUE
    /\ last' = Idle
    /\ UNCHANGED <<center, target, options, velocity, ctorArg, fpArg, changes>>

\* Plugin.resume()
Resume ==
    /\ paused' = FALSE
    /\ last' = Idle
    /\ UNCHANGED <<center, target, options, velocity, ctorArg, fpArg, changes>>

\* external logic moves the target between frames
TargetMove(t) ==
    /\ changes < MaxChanges
    /\ t # target
    /\ target' = t
    /\ changes' = changes + 1
    /\ last' = Idle
    /\ UNCHANGED <<center, options, velocity, paused, ctorArg, fpArg>>

----------------------------------------------------------------------------
(* The frame loop *)

\* the follow point p leaves the next frame exactly computable
FollowPointResolves(p) ==
    Resolves(options, Sub(target, toWorld(IF p # NULL THEN p ELSE center)))

Next ==
    \/ \E elapsed \in 0..MaxElapsed : Update(elapsed)
    \/ \E p \in FollowPoints : FollowPointResolves(p) /\ SetFollowPoint(p)
    \/ GetFollowPoint
    \/ Pause
    \/ Resume
    \/ \E o \in Offsets : Resolves(options, o) /\ TargetMove(Add(FollowPointWorld, o))

\* the frame loop alone: the target at rest, the follow point unchanged, the
\* controller not paused, update called every frame with elapsed > 0
Frames == \E elapsed \in 1..MaxElapsed : Update(elapsed)

Spec == Init /\ [][Next]_vars

\* the host calls update every frame, for ever
FrameSpec == Init /\ [][Frames]_vars /\ WF_vars(Frames)

----------------------------------------------------------------------------
(* Properties *)

\* the latest call was an update that got past the paused gate
Ran == last.op = "update" /\ ~last.paused

NoRadius == ~Truthy(options.radius)

\* Soundness of the exact arithmetic: every vector whose bearing an update
\* took (the target from the follow point outside the dead zone, the delta
\* in the constant-speed and accelerated branches) had a rational sine and
\* cosine, so Hyp, CosTimes and SinTimes were exact.
BearingsExact ==
    /\ (Ran /\ last.branch \in {"constant", "accelerate", "decelerate"})
          => ExactBearing(last.delta)
    /\ (Ran /\ Truthy(options.radius) /\ last.branch # "deadzone")
          => ExactBearing(Sub(target, last.followPointWorld))

\* C1 (teleport correctness): after an update of a non-paused controller
\* with speed 0 and no dead zone, the viewport center is the target position
\* minus the offset, the offset being the world-space follow point resolved
\* at the start of that update minus the center at its start.
C1_TeleportCorrect ==
    (Ran /\ ~Truthy(options.speed) /\ NoRadius)
        => center = Sub(target, Sub(last.followPointWorld, last.centerBefore))

\* C1 witness: a teleport with a non-zero offset has moved the center
C1_Witness ==
    /\ Ran /\ last.branch = "teleport" /\ NoRadius
    /\ last.followPointWorld # last.centerBefore
    /\ center # last.centerBefore
    /\ center # target

\* C2 (centering by default): after an update of a controller constructed
\* without a followPoint option, never given one since, with speed 0 and no
\* dead zone, the viewport center is the target position.
C2_CentersOnTargetByDefault ==
    (Ran /\ ctorArg.followPoint = ABSENT /\ fpArg = NEVER
         /\ ~Truthy(options.speed) /\ NoRadius)
        => center = target

\* C3 (dead-zone no-op): when the radius is positive and the target is no
\* farther than the radius from the world-space follow point, an update
\* leaves the center and the velocity as they were, calls no moveCenter and
\* emits nothing, whatever the motion policy.
C3_DeadZoneNoOp ==
    (/\ Ran
     /\ Truthy(options.radius) /\ options.radius[1] > 0
     /\ NormSq(Sub(target, last.followPointWorld)) <= options.radius[1] * options.radius[1])
        => /\ center = last.centerBefore
           /\ velocity = last.velocityBefore
           /\ last.moveCenter = 0
           /\ last.emitted = 0

\* C3 witness: an update with the target at exactly the radius, off the
\* follow point's position
C3_Witness ==
    /\ Ran /\ last.branch = "deadzone"
    /\ options.radius[1] > 0
    /\ NormSq(Sub(target, last.followPointWorld)) = options.radius[1] * options.radius[1]
    /\ Truthy(options.speed)

\* C4 (dead-zone edge tracking): after an update with a positive radius r,
\* speed 0 and the target farther than r from the world-space follow point,
\* the target lies at distance exactly r from the follow point resolved
\* again from the moved viewport, on the bearing it had before.
C4_TargetOnEdgeAfterTeleport ==
    (/\ Ran
     /\ Truthy(options.radius) /\ options.radius[1] > 0
     /\ ~Truthy(options.speed)
     /\ NormSq(Sub(target, last.followPointWorld)) > options.radius[1] * options.radius[1])
        => LET before == Sub(target, last.followPointWorld)
               after == Sub(target, FollowPointWorld)
           IN  /\ NormSq(after) = options.radius[1] * options.radius[1]
               /\ Cross(after, before) = 0
               /\ Dot(after, before) > 0

\* C5 (velocity clamp): with positive speed and acceleration both velocity
\* components stay within 0..speed in every reachable state, and an update
\* that finds the target beyond the deceleration distance lowers neither.
C5_VelocityClamped ==
    (Truthy(options.speed) /\ options.speed[1] > 0
         /\ Truthy(options.acceleration) /\ options.acceleration[1] > 0)
        => /\ \A i \in 1..2 : 0 <= velocity[i] /\ velocity[i] <= options.speed[1]
           /\ (Ran /\ last.branch = "accelerate")
                 => \A i \in 1..2 : velocity[i] >= last.velocityBefore[i]

\* C5 witness: an accelerating update has raised the velocity to the speed
\* after frames, target moves, pauses and follow-point changes
C5_Witness ==
    /\ Ran /\ last.branch = "accelerate"
    /\ velocity = <<options.speed[1], options.speed[1]>>
    /\ last.velocityBefore[1] < velocity[1]
    /\ last.velocityBefore[1] > 0

\* the latest update was a no-op: the target in the dead zone, or the center
\* at the target center (deltaX and deltaY both 0)
Arrived == last.op = "update" /\ last.branch \in {"still", "deadzone"}

Eased == Truthy(options.speed) /\ Truthy(options.acceleration)

\* C6 (arrival under accelerated motion): with speed and acceleration set,
\* the target at rest, the follow point unchanged and update called every
\* frame with elapsed > 0, the center eventually is at the target center and
\* every update from then on is a no-op.
C6_EasedArrives == Eased => <>[]Arrived

\* C7 (no overshoot): after an update in constant-speed or accelerated mode
\* each coordinate of the center lies between its value before the update
\* and the target-center coordinate of that update, and an axis whose change
\* exceeded the remaining delta is exactly at the target-center value.
C7_NoOvershoot ==
    (Ran /\ last.branch \in {"constant", "accelerate", "decelerate"})
        => \A i \in 1..2 :
              /\ Min(last.centerBefore[i], last.targetCenter[i]) <= center[i]
              /\ center[i] <= Max(last.centerBefore[i], last.targetCenter[i])
              /\ Abs(last.change[i]) > Abs(last.delta[i]) => center[i] = last.targetCenter[i]

\* C7 witness: an axis whose change exceeded its remaining delta has been
\* set to the target center
C7_Witness ==
    /\ Ran /\ last.branch \in {"constant", "accelerate", "decelerate"}
    /\ \E i \in 1..2 :
          /\ Abs(last.change[i]) > Abs(last.delta[i])
          /\ last.delta[i] # 0
          /\ center[i] = last.targetCenter[i]

\* C8 (pause gate): a step taken while paused, the step that pauses and the
\* step that resumes leave the center and the velocity as they were, and an
\* update while paused calls no moveCenter and emits nothing; so the first
\* update after resume starts from the velocity held when pausing.
C8_PauseGate ==
    [][(paused \/ paused')
          => /\ center' = center
             /\ velocity' = velocity
             /\ (last'.op = "update" /\ last'.paused)
                   => (last'.moveCenter = 0 /\ last'.emitted = 0)]_vars

\* C8 witness: an update ran while paused, with a velocity built up and the
\* target away from the follow point
C8_Witness ==
    /\ paused /\ last.op = "update" /\ last.paused
    /\ velocity # <<0, 0>>
    /\ NoRadius
    /\ target # FollowPointWorld

\* C9 (follow-point round trip): getFollowPoint returns the argument of the
\* latest setFollowPoint, a point or null, whatever updates ran before or in
\* between; neither call changes the center, the velocity, the speed, the
\* acceleration or the radius, nor emits anything.
C9_FollowPointRoundTrip ==
    [][((changes' # changes /\ target' = target) \/ last'.op = "getFollowPoint")
          => /\ center' = center
             /\ velocity' = velocity
             /\ options'.speed = options.speed
             /\ options'.acceleration = options.acceleration
             /\ options'.radius = options.radius
             /\ last'.moveCenter = 0 /\ last'.emitted = 0
             /\ (last'.op = "getFollowPoint" /\ fpArg' # NEVER) => last'.ret = fpArg']_vars

\* C9 witness: getFollowPoint returned null after setFollowPoint(null), with
\* an update having moved the center before
C9_Witness ==
    /\ last.op = "getFollowPoint"
    /\ fpArg = NULL /\ last.ret = NULL
    /\ ctorArg.followPoint # NULL
    /\ center \notin StartCenters

\* C10 (constant-speed step): after an update with a speed s, no
\* acceleration and no dead zone in which neither axis overshoots, the center
\* has moved by exactly s along the bearing from the old center to the
\* target center, whatever elapsed was.
C10_ConstantSpeedStep ==
    (/\ Ran /\ last.branch = "constant" /\ NoRadius
     /\ \A i \in 1..2 : Abs(last.change[i]) <= Abs(last.delta[i]))
        => LET step == Sub(center, last.centerBefore)
           IN  /\ NormSq(step) = options.speed[1] * options.speed[1]
               /\ Cross(step, last.delta) = 0
               /\ Dot(step, last.delta) > 0

\* C10 witness: speed 5, center (0, 0), the follow point at the viewport's
\* center, the target at (100, 0): one update leaves the center at (5, 0)
C10_Witness ==
    /\ Ran /\ last.branch = "constant" /\ NoRadius
    /\ options.speed = Num(5)
    /\ last.centerBefore = <<0, 0>>
    /\ last.followPointWorld = <<0, 0>>
    /\ target = <<100, 0>>
    /\ center = <<5, 0>>

\* C11 (default configuration): a controller constructed with no options
\* has speed 0, acceleration null, radius 0 and a null follow point, so
\* getFollowPoint returns null until setFollowPoint is called; an option
\* given at construction overrides its own field only.
C11_DefaultConfiguration ==
    /\ ctorArg.speed = ABSENT => options.speed = Num(0)
    /\ ctorArg.acceleration = ABSENT => options.acceleration = NULL
    /\ ctorArg.radius = ABSENT => options.radius = Num(0)
    /\ (ctorArg.followPoint = ABSENT /\ fpArg = NEVER /\ last.op = "getFollowPoint")
          => last.ret = NULL
    /\ \A f \in {"speed", "acceleration", "radius"} :
          ctorArg[f] # ABSENT => options[f] = ctorArg[f]
    /\ (ctorArg.followPoint # ABSENT /\ fpArg = NEVER)
          => options.followPoint = ctorArg.followPoint

\* C12 (teleport is idempotent): after an update with speed 0 and no dead
\* zone, whether the follow point is a canvas point or null, the world-space
\* follow point resolved again from the moved viewport is the target
\* position, so that a second update finds deltaX and deltaY 0.
C12_TeleportIdempotent ==
    (Ran /\ ~Truthy(options.speed) /\ NoRadius) => FollowPointWorld = target

\* C13 (monotone deceleration): in accelerated mode with the target at rest
\* and elapsed > 0, once an update has taken the deceleration branch no later
\* update before arrival raises a velocity component.  In the frame loop an
\* update after arrival changes nothing, so the first update to raise the
\* velocity again would directly follow a decelerating one.
C13_MonotoneDeceleration ==
    [][(Ran /\ last.branch = "decelerate" /\ last'.op = "update")
          => \A i \in 1..2 : velocity'[i] <= velocity[i]]_vars

\* the dead-zone clamp acted in the latest update: a positive radius and the
\* target farther than it from the world-space follow point
Clamped ==
    /\ Ran
    /\ Truthy(options.radius) /\ options.radius[1] > 0
    /\ NormSq(Sub(target, last.followPointWorld)) > options.radius[1] * options.radius[1]

\* C14 as stated (effective target of the dead-zone clamp): when the clamp
\* acts, the effective target position is the point exactly radius units from
\* the follow point along the bearing from follow point to target.
C14_EffectiveTargetFromFollowPoint ==
    Clamped =>
        LET w == Sub(target, last.followPointWorld)
            e == Sub(last.to, last.followPointWorld)
        IN  /\ NormSq(e) = options.radius[1] * options.radius[1]
            /\ Cross(e, w) = 0
            /\ Dot(e, w) > 0

\* C14 (effective target of the dead-zone clamp), amended: when the clamp
\* acts, the effective target position is the point exactly radius units short
\* of the target on the line from follow point to target, that is at distance
\* d - radius from the follow point along the bearing to the target.
C14_EffectiveTargetShortOfTarget ==
    Clamped =>
        LET w == Sub(target, last.followPointWorld)
            e == Sub(last.to, last.followPointWorld)
            s == Sub(target, last.to)
            d == Hyp(w)
        IN  /\ NormSq(s) = options.radius[1] * options.radius[1]
            /\ Cross(s, w) = 0
            /\ Dot(s, w) > 0
            /\ NormSq(e) = (d - options.radius[1]) * (d - options.radius[1])
            /\ Cross(e, w) = 0
            /\ Dot(e, w) > 0

\* C14 witness: the clamp acted with the target at a distance other than
\* twice the radius, where the two readings differ
C14_Witness ==
    /\ Clamped
    /\ NormSq(Sub(target, last.followPointWorld)) # 4 * options.radius[1] * options.radius[1]
    /\ last.moveCenter = 1

\* C15 (notification pairing): every update calls moveCenter at most once and
\* emits 'moved' of type 'follow' at most once; it emits exactly when it called
\* moveCenter, and after it; an update that is paused, inside the dead zone or
\* has both deltas 0 makes neither call, whatever the motion policy.
C15_NotificationPairing ==
    last.op = "update" =>
        /\ last.moveCenter <= 1
        /\ last.emitted <= 1
        /\ last.emitted = 1 <=> last.moveCenter = 1
        /\ last.calls \in {<<>>, <<"moveCenter", "emit moved follow">>}
        /\ last.moveCenter = 1 <=> last.calls # <<>>
        /\ (\/ last.paused
            \/ /\ Truthy(options.radius)
               /\ NormSq(Sub(target, last.followPointWorld))
                      <= options.radius[1] * options.radius[1]
            \/ last.targetCenter = last.centerBefore)
              => /\ last.calls = <<>>
                 /\ center = last.centerBefore

\* C15 witness: an update at constant speed that called moveCenter and then
\* emitted
C15_Witness ==
    /\ Ran /\ last.branch = "constant"
    /\ last.calls = <<"moveCenter", "emit moved follow">>
    /\ center # last.centerBefore

\* C16 (velocity touched only by accelerated motion): the velocity is (0, 0)
\* at construction and only an update that takes the accelerated branch
\* changes it; teleport and constant-speed updates, updates that return
\* without moving (arrival included) and every other operation leave it as
\* it is.
C16_VelocityOnlyEased ==
    /\ velocity = <<0, 0>>
    /\ [][velocity' # velocity
             => /\ last'.op = "update"
                /\ last'.branch \in {"accelerate", "decelerate"}
                /\ Eased]_vars

\* C16 witness: an accelerated update found the target reached and returned
\* with the velocity it had, which is not (0, 0)
C16_Witness ==
    /\ Ran /\ Eased
    /\ last.branch = "still"
    /\ velocity # <<0, 0>>
    /\ velocity = last.velocityBefore

\* C17 ('moved' means the camera moved): in every motion policy and for every
\* elapsed >= 0, an update that emits 'moved' has changed the viewport's
\* center.
C17_MovedMeansMoved ==
    (last.op = "update" /\ last.emitted > 0) => center # last.centerBefore

\* the constant-speed policy
Constant == Truthy(options.speed) /\ ~Truthy(options.acceleration)

\* C18 (arrival under constant speed): with a speed, no acceleration, the
\* target at rest, the follow point unchanged and update called every frame,
\* every constant-speed update strictly reduces the remaining delta of each
\* axis that has one, the center eventually is at the target center, and
\* every update from then on is a no-op that emits nothing.
C18_ConstantArrives ==
    Constant =>
        /\ [](( Ran /\ last.branch = "constant") =>
                \A i \in 1..2 :
                    last.delta[i] # 0 =>
                        Abs(last.targetCenter[i] - center[i]) < Abs(last.delta[i]))
        /\ <>[](Arrived /\ last.calls = <<>>)

\* the latest update took the accelerated branch
EasedStep == Ran /\ last.branch \in {"accelerate", "decelerate"}

\* C19 as stated (both velocity components are always equal): in every
\* reachable state velocity.x = velocity.y, and the displacement of the center
\* in an accelerated update has magnitude equal to that common value, which
\* is at most speed.
C19_DisplacementIsVelocity ==
    /\ velocity[1] = velocity[2]
    /\ EasedStep =>
          /\ NormSq(Sub(center, last.centerBefore)) = velocity[1] * velocity[1]
          /\ velocity[1] <= options.speed[1]

\* C19 (both velocity components are always equal), amended: in every
\* reachable state velocity.x = velocity.y; in an accelerated update the
\* computed change has magnitude equal to that common value, which is at most
\* speed, and the displacement of the center has that magnitude when neither
\* axis overshoots and a smaller one when the overshoot clamp acts.
C19_VelocityComponentsEqual ==
    /\ velocity[1] = velocity[2]
    /\ EasedStep =>
          LET step == Sub(center, last.centerBefore)
              snaps == \E i \in 1..2 : Abs(last.change[i]) > Abs(last.delta[i])
          IN  /\ NormSq(last.change) = velocity[1] * velocity[1]
              /\ velocity[1] <= options.speed[1]
              /\ ~snaps => NormSq(step) = velocity[1] * velocity[1]
              /\ snaps => NormSq(step) < velocity[1] * velocity[1]

\* C19 witness: an accelerated update in which the overshoot clamp acted, so
\* that the center moved by less than the velocity
C19_Witness ==
    /\ EasedStep
    /\ velocity[1] = velocity[2] /\ velocity[1] > 0
    /\ \E i \in 1..2 : Abs(last.change[i]) > Abs(last.delta[i])
    /\ center # last.centerBefore
    /\ NormSq(Sub(center, last.centerBefore)) < velocity[1] * velocity[1]

====
